---- MODULE Spec2Model ----
(***************************************************************************)
(* The AG-UI endpoint of server/ag_ui_fastapi_gemini.py: POST /ag-ui       *)
(* (run_agent), the DocumentState model, the per-run system instructions   *)
(* and the agent's tool registry, as a state machine over in-flight        *)
(* requests.                                                               *)
(*                                                                         *)
(* JSON values are tagged records: [t |-> "null"], [t |-> "str", v |-> s], *)
(* [t |-> "num", v |-> literal], [t |-> "list", v |-> <<values>>] and      *)
(* [t |-> "dict", v |-> <<key/value pairs>>] (a Python dict keeps its      *)
(* insertion order).  An exception is the outcome [raised |-> TRUE, ...].  *)
(***************************************************************************)
EXTENDS Integers, Sequences, FiniteSets, TLC

VARIABLES
    pc,            \* per request: where its task stands
    request,       \* per request: what the client sent (Accept header, body)
    run_input,     \* per request: the decoded RunAgentInput (run_agent's local)
    deps,          \* per request: StateDeps(doc_state) handed to the run
    adapter,       \* per request: the AGUIAdapter built by run_agent
    responses,     \* per request: the responses run_agent returned
    instructions,  \* per request: the instructions the run was given
    events,        \* per request: the events the agent run produced, in order
    consumed,      \* per request: how many events encode_stream has taken
    pending,       \* per request: the frame encoded but not yet flushed
    frames,        \* per request: the frames delivered to the client, in order
    agent          \* the process-wide Agent (instructions source, tool registry)

vars == <<pc, request, run_input, deps, adapter, responses, instructions,
          events, consumed, pending, frames, agent>>

\* Most events one agent run produces (Spec).
MaxEvents == 2
\* Most events one agent run produces when two requests are in flight (SpecConc).
MaxConcEvents == 1

\* The in-flight requests.  Spec handles "r1" alone; SpecConc handles both.
Req == {"r1", "r2"}
Solo == {"r1"}

---------------------------------------------------------------------------
\* JSON values

JNull == [t |-> "null"]
JStr(s) == [t |-> "str", v |-> s]
JNum(lit) == [t |-> "num", v |-> lit]
JList(items) == [t |-> "list", v |-> items]
JDict(pairs) == [t |-> "dict", v |-> pairs]

\* key in d
Has(pairs, key) == \E i \in DOMAIN pairs : pairs[i][1] = key
\* d[key]
Get(pairs, key) == pairs[CHOOSE i \in DOMAIN pairs : pairs[i][1] = key][2]

\* An exception raised / a value returned
Raise(exc) == [raised |-> TRUE, exc |-> exc]
Return(val) == [raised |-> FALSE, value |-> val]

\* A local name not bound yet
Unbound == [unbound |-> TRUE]

SSE_CONTENT_TYPE == "text/event-stream"
UNPROCESSABLE_ENTITY == 422
\* starlette's default status_code of a Response
HTTP_OK == 200

---------------------------------------------------------------------------
\* DocumentState (pydantic BaseModel, default config: extra keys ignored,
\* lax validation of JSON-born values)

\* document: str
ValidDocument(val) == val.t = "str"
\* frontend_tools: list[dict]
ValidFrontendTools(val) ==
    val.t = "list" /\ \A i \in DOMAIN val.v : val.v[i].t = "dict"

\* FieldErrors had the model forbidden extra keys (extra="forbid")
FieldErrorsForbidExtra(kwargs) ==
    {f \in {"document"} : Has(kwargs, f) /\ ~ValidDocument(Get(kwargs, f))}
    \cup
    {f \in {"frontend_tools"} :
        Has(kwargs, f) /\ ~ValidFrontendTools(Get(kwargs, f))}
    \cup
    {kwargs[i][1] : i \in {j \in DOMAIN kwargs :
                              kwargs[j][1] \notin {"document", "frontend_tools"}}}

\* The fields of the keyword arguments that fail validation
FieldErrors(kwargs) ==
    {f \in {"document"} : Has(kwargs, f) /\ ~ValidDocument(Get(kwargs, f))}
    \cup
    {f \in {"frontend_tools"} :
        Has(kwargs, f) /\ ~ValidFrontendTools(Get(kwargs, f))}

\* DocumentState() had document defaulted to a placeholder text
PlaceholderDocumentState == [document |-> "Untitled", frontend_tools |-> <<>>]

\* DocumentState(): every field at its default
DefaultDocumentState == [document |-> "", frontend_tools |-> <<>>]

\* The value of a DocumentState built from valid keyword arguments
FromFields(kwargs) ==
    [document |->
        IF Has(kwargs, "document")
        THEN Get(kwargs, "document").v
        ELSE DefaultDocumentState.document,
     frontend_tools |->
        IF Has(kwargs, "frontend_tools")
        THEN Get(kwargs, "frontend_tools").v
        ELSE DefaultDocumentState.frontend_tools]

\* DocumentState(**kwargs) had it kept the valid fields and defaulted the
\* invalid ones instead of raising
DocumentStateKeepValid(kwargs) ==
    Return([document |->
               IF Has(kwargs, "document") /\ ValidDocument(Get(kwargs, "document"))
               THEN Get(kwargs, "document").v ELSE "",
            frontend_tools |->
               IF Has(kwargs, "frontend_tools")
                  /\ ValidFrontendTools(Get(kwargs, "frontend_tools"))
               THEN Get(kwargs, "frontend_tools").v ELSE <<>>])

\* DocumentState(**kwargs)
DocumentState(kwargs) ==
    IF FieldErrors(kwargs) = {}
    THEN Return(FromFields(kwargs))
    ELSE Raise("ValidationError")

\* DocumentState.model_validate(obj): a dict or an instance validates
model_validate(obj) ==
    IF obj.t = "dict" THEN DocumentState(obj.v)
    ELSE IF obj.t = "DocumentState" THEN Return(obj.v)
    ELSE Raise("ValidationError")

---------------------------------------------------------------------------
\* Serialisation

RECURSIVE Join(_, _)
\* sep.join(parts)
Join(parts, sep) ==
    IF parts = <<>> THEN ""
    ELSE IF Len(parts) = 1 THEN parts[1]
    ELSE parts[1] \o sep \o Join(Tail(parts), sep)

\* json.dumps of a string, a number or null
json_scalar(val) ==
    CASE val.t = "str" -> "\"" \o val.v \o "\""
      [] val.t = "num" -> val.v
      [] OTHER -> "null"

\* json.dumps(d, indent=2) of a dict of scalars, nested at indentation ind
json_dict(d, ind) ==
    IF d.v = <<>> THEN "{}"
    ELSE "{\n"
         \o Join([i \in DOMAIN d.v |->
                    ind \o "  \"" \o d.v[i][1] \o "\": " \o json_scalar(d.v[i][2])],
                 ",\n")
         \o "\n" \o ind \o "}"

\* json.dumps(tools, indent=2) of a list of dicts
json_dumps(tools) ==
    IF tools = <<>> THEN "[]"
    ELSE "[\n"
         \o Join([i \in DOMAIN tools |-> "  " \o json_dict(tools[i], "  ")], ",\n")
         \o "\n]"

\* repr() of a string, a number or None
py_repr(val) ==
    CASE val.t = "str" -> "'" \o val.v \o "'"
      [] val.t = "num" -> val.v
      [] OTHER -> "None"

\* str(args) of a dict of scalars, in insertion order
py_str_dict(args) ==
    "{" \o Join([i \in DOMAIN args |->
                   "'" \o args[i][1] \o "': " \o py_repr(args[i][2])], ", ")
        \o "}"

---------------------------------------------------------------------------
\* The agent: instructions and tools.  ctx is the RunContext, ctx.deps the
\* StateDeps the run was given.

BaseInstructions == "You are a helpful assistant."

\* The text system_instructions adds before the listing (the source quotes
\* execute_frontend_tool in backticks, written here as apostrophes).
FrontendDirections ==
    "\n\nThe user has defined the following tools that can be executed on the frontend.\n"
    \o "To execute one of these, use the 'execute_frontend_tool' tool with the exact name and arguments.\n"
    \o "Available Frontend Tools:\n"

\* system_instructions had it returned the base text whatever the state
static_instructions(ctx) == BaseInstructions

system_instructions(ctx) ==
    IF ctx.deps.state.frontend_tools # <<>>
    THEN BaseInstructions \o FrontendDirections
         \o json_dumps(ctx.deps.state.frontend_tools)
    ELSE BaseInstructions

sync_state_with_frontend(ctx) ==
    "State length: " \o ToString(Len(ctx.deps.state.document))

\* execute_frontend_tool had it reported the document's length as well
execute_frontend_tool_with_state(ctx, tool_name, args) ==
    "Frontend tool '" \o tool_name \o "' execution requested with args: "
    \o py_str_dict(args)
    \o " (state length: " \o ToString(Len(ctx.deps.state.document)) \o ")"

execute_frontend_tool(ctx, tool_name, args) ==
    "Frontend tool '" \o tool_name \o "' execution requested with args: "
    \o py_str_dict(args)

send_counter_events == "Counter events not emitted (compat mode)"

get_weather(location) == "The weather in " \o location \o " is sunny."

\* Agent(...) and the four @agent.tool / @agent.tool_plain registrations
AgentConfig ==
    [model |-> "google-gla:gemini-2.5-flash",
     instructions |-> "system_instructions",
     tools |-> {"sync_state_with_frontend", "execute_frontend_tool",
                "send_counter_events", "get_weather"}]

---------------------------------------------------------------------------
\* run_agent's steps

\* AGUIAdapter.build_run_input(body): the decoded run input, or ValidationError
build_run_input(body) ==
    IF body.kind = "run_input"
    THEN Return([has_state |-> body.has_state, state |-> body.state])
    ELSE Raise(body.kind)

\* e.json()
error_json(exc) == "[{\"type\":\"" \o exc \o "\"}]"

\* accept had it been taken from the request's Accept header
accept_negotiated(rq) ==
    IF rq.accept = "" THEN SSE_CONTENT_TYPE ELSE rq.accept

\* accept = SSE_CONTENT_TYPE
accept(rq) == SSE_CONTENT_TYPE

\* The error response had it been sent as 400 Bad Request
BadRequestResponse(exc) ==
    [content |-> error_json(exc),
     media_type |-> "application/json",
     status_code |-> 400,
     streaming |-> FALSE]

\* Response(content=e.json(), media_type="application/json", status_code=422)
ValidationErrorResponse(exc) ==
    [content |-> error_json(exc),
     media_type |-> "application/json",
     status_code |-> UNPROCESSABLE_ENTITY,
     streaming |-> FALSE]

\* StreamingResponse(encoded_stream, media_type=accept)
StreamingResponse(media_type) ==
    [content |-> "",
     media_type |-> media_type,
     status_code |-> HTTP_OK,
     streaming |-> TRUE]

\* getattr(run_input, 'state', None)
state_val(ri) == IF ri.has_state THEN ri.state ELSE JNull

\* The try/except that binds doc_state
doc_state(ri) ==
    LET sv == state_val(ri) IN
    IF sv.t = "dict" THEN
        LET built == DocumentState(sv.v) IN
        IF built.raised THEN DefaultDocumentState ELSE built.value
    ELSE IF sv.t = "DocumentState" THEN sv.v
    ELSE IF sv.t # "null" THEN
        LET validated == model_validate(sv) IN
        IF validated.raised THEN DefaultDocumentState ELSE validated.value
    ELSE DefaultDocumentState

\* StateDeps(doc_state)
StateDeps(st) == [state |-> st]

\* deps had it been a module-level name every task rebinds
bind_deps_shared(r, d) == [q \in Req |-> d]

\* deps = StateDeps(doc_state): a local of the request's own task
bind_deps(r, d) == [deps EXCEPT ![r] = d]

\* AGUIAdapter(agent=agent, run_input=run_input, accept=accept)
AGUIAdapter(ri, acc) == [agent |-> "agent", run_input |-> ri, accept |-> acc]

---------------------------------------------------------------------------
\* What clients send and what the model provider makes the agent do

\* Frontend tool descriptors
AlertTool == JDict(<< <<"name", JStr("alert")>> >>)
LogTool == JDict(<< <<"name", JStr("log")>>, <<"description", JStr("d")>> >>)

\* A key the mapping does not hold
Absent == [t |-> "absent"]
Entry(key, val) == IF val = Absent THEN <<>> ELSE << <<key, val>> >>

\* State mappings: each key absent or holding one of a few values
StateMappings ==
    {JDict(Entry("document", d) \o Entry("frontend_tools", f)
           \o Entry("frontendTools", c) \o Entry("extra", x)) :
        d \in {Absent, JStr("hello"), JNum("42")},
        f \in {Absent, JList(<<>>), JList(<<AlertTool>>),
               JList(<<AlertTool, LogTool>>), JStr("alert"),
               JList(<<AlertTool, JNum("7")>>)},
        c \in {Absent, JList(<<AlertTool>>)},
        x \in {Absent, JNum("1")}}

\* State payloads that are no mapping
OtherStates ==
    {JNull, JStr("draft"), JNum("3"), JList(<<>>),
     [t |-> "DocumentState",
      v |-> [document |-> "typed", frontend_tools |-> <<>>]]}

RunInputBody(has_state, st) ==
    [kind |-> "run_input", has_state |-> has_state, state |-> st]
\* A body build_run_input rejects
BadBody(kind) == [kind |-> kind, has_state |-> FALSE, state |-> JNull]

Bodies ==
    {BadBody("json_invalid"), BadBody("missing"), RunInputBody(FALSE, JNull)}
    \cup {RunInputBody(TRUE, st) : st \in StateMappings \cup OtherStates}

\* Accept headers ("" when the client sends none)
Accepts == {"", "application/json", "text/event-stream"}

\* (tool_name, args) the agent passes to execute_frontend_tool
FrontendCalls ==
    {<<"alert", << <<"msg", JStr("hi")>> >> >>,
     <<"log", << <<"msg", JStr("hi")>>, <<"n", JNum("1")>> >> >>}

\* What one request may meet: handled alone ...
Full ==
    [bodies |-> Bodies, accepts |-> Accepts, texts |-> {"Hi"},
     calls |-> FrontendCalls, locations |-> {"Paris"}, max |-> MaxEvents]

\* ... and next to another request in flight
Small ==
    [bodies |->
        {BadBody("missing"),
         RunInputBody(TRUE, JDict(<< <<"document", JStr("hello")>> >>)),
         RunInputBody(TRUE,
            JDict(<< <<"frontend_tools", JList(<<AlertTool>>)>> >>))},
     accepts |-> {"application/json"}, texts |-> {"Hi"},
     calls |-> {<<"alert", << <<"msg", JStr("hi")>> >> >>},
     locations |-> {"Paris"}, max |-> MaxConcEvents]

---------------------------------------------------------------------------
\* Events and frames

TextEvent(delta) ==
    [type |-> "TEXT_MESSAGE_CONTENT", tool |-> "", call |-> <<>>,
     content |-> delta]
ToolResult(tool, call, ret) ==
    [type |-> "TOOL_CALL_RESULT", tool |-> tool, call |-> call, content |-> ret]

\* adapter.encode_event: one server-sent-event frame for one event
encode_event(e) ==
    "data: {\"type\":\"" \o e.type \o "\",\"content\":\"" \o e.content
    \o "\"}\n\n"

\* The RunContext of r's run
Ctx(r) == [deps |-> deps[r]]

\* next_event had the encoder taken the newest event produced
newest_event(r) == events[r][Len(events[r])]

\* The event encode_stream takes next from event_stream
next_event(r) == events[r][consumed[r] + 1]

\* The response body after one more chunk has been sent
deliver(sent, frame) == Append(sent, frame)

---------------------------------------------------------------------------
\* The state machine

Init ==
    /\ pc = [r \in Req |-> "idle"]
    /\ request = [r \in Req |-> Unbound]
    /\ run_input = [r \in Req |-> Unbound]
    /\ deps = [r \in Req |-> Unbound]
    /\ adapter = [r \in Req |-> Unbound]
    /\ responses = [r \in Req |-> <<>>]
    /\ instructions = [r \in Req |-> ""]
    /\ events = [r \in Req |-> <<>>]
    /\ consumed = [r \in Req |-> 0]
    /\ pending = [r \in Req |-> <<>>]
    /\ frames = [r \in Req |-> <<>>]
    /\ agent = AgentConfig

\* A client posts a request; run_agent starts and awaits request.body()
Arrive(r, dom) ==
    /\ pc[r] = "idle"
    /\ \E h \in dom.accepts, b \in dom.bodies :
          request' = [request EXCEPT ![r] = [accept |-> h, body |-> b]]
    /\ pc' = [pc EXCEPT ![r] = "await_body"]
    /\ UNCHANGED <<run_input, deps, adapter, responses, instructions, events,
                   consumed, pending, frames, agent>>

\* run_agent from the body's arrival to its return
run_agent(r) ==
    /\ pc[r] = "await_body"
    /\ LET decoded == build_run_input(request[r].body) IN
       IF decoded.raised
       THEN /\ responses' = [responses EXCEPT
                               ![r] = Append(@, ValidationErrorResponse(decoded.exc))]
            /\ pc' = [pc EXCEPT ![r] = "responded"]
            /\ UNCHANGED <<run_input, deps, adapter>>
       ELSE /\ run_input' = [run_input EXCEPT ![r] = decoded.value]
            /\ deps' = bind_deps(r, StateDeps(doc_state(decoded.value)))
            /\ adapter' = [adapter EXCEPT
                             ![r] = AGUIAdapter(decoded.value, accept(request[r]))]
            /\ responses' = [responses EXCEPT
                               ![r] = Append(@, StreamingResponse(accept(request[r])))]
            /\ pc' = [pc EXCEPT ![r] = "streaming"]
    /\ UNCHANGED <<request, instructions, events, consumed, pending, frames,
                   agent>>

\* The response starts iterating the stream: the run begins and the agent
\* asks its instructions function for the run's instructions
run_stream(r) ==
    /\ pc[r] = "streaming"
    /\ agent.instructions = "system_instructions"
    /\ instructions' = [instructions EXCEPT ![r] = system_instructions(Ctx(r))]
    /\ pc' = [pc EXCEPT ![r] = "running"]
    /\ UNCHANGED <<request, run_input, deps, adapter, responses, events,
                   consumed, pending, frames, agent>>

\* The run produces event e
Emit(r, e) ==
    /\ events' = [events EXCEPT ![r] = Append(@, e)]
    /\ UNCHANGED <<pc, request, run_input, deps, adapter, responses,
                   instructions, consumed, pending, frames, agent>>

CanEmit(r, dom) == pc[r] = "running" /\ Len(events[r]) < dom.max

\* The model answers with text
ModelText(r, dom) ==
    /\ CanEmit(r, dom)
    /\ \E d \in dom.texts : Emit(r, TextEvent(d))

\* The model calls sync_state_with_frontend
CallSyncState(r, dom) ==
    /\ CanEmit(r, dom)
    /\ "sync_state_with_frontend" \in agent.tools
    /\ Emit(r, ToolResult("sync_state_with_frontend", <<>>,
                          sync_state_with_frontend(Ctx(r))))

\* The model calls execute_frontend_tool(tool_name, args)
CallFrontendTool(r, dom) ==
    /\ CanEmit(r, dom)
    /\ "execute_frontend_tool" \in agent.tools
    /\ \E c \in dom.calls :
          Emit(r, ToolResult("execute_frontend_tool", c,
                             execute_frontend_tool(Ctx(r), c[1], c[2])))

\* The model calls send_counter_events
CallCounterEvents(r, dom) ==
    /\ CanEmit(r, dom)
    /\ "send_counter_events" \in agent.tools
    /\ Emit(r, ToolResult("send_counter_events", <<>>, send_counter_events))

\* The model calls get_weather(location)
CallWeather(r, dom) ==
    /\ CanEmit(r, dom)
    /\ "get_weather" \in agent.tools
    /\ \E loc \in dom.locations :
          Emit(r, ToolResult("get_weather", <<loc>>, get_weather(loc)))

\* The run completes
RunComplete(r) ==
    /\ pc[r] = "running"
    /\ pc' = [pc EXCEPT ![r] = "finished"]
    /\ UNCHANGED <<request, run_input, deps, adapter, responses, instructions,
                   events, consumed, pending, frames, agent>>

\* encode_stream takes the next event and yields its frame
encode_stream(r) ==
    /\ pc[r] \in {"running", "finished"}
    /\ pending[r] = <<>>
    /\ consumed[r] < Len(events[r])
    /\ pending' = [pending EXCEPT ![r] = <<encode_event(next_event(r))>>]
    /\ consumed' = [consumed EXCEPT ![r] = @ + 1]
    /\ UNCHANGED <<pc, request, run_input, deps, adapter, responses,
                   instructions, events, frames, agent>>

\* The response sends the yielded frame to the client
SendFrame(r) ==
    /\ pending[r] # <<>>
    /\ frames' = [frames EXCEPT ![r] = deliver(@, pending[r][1])]
    /\ pending' = [pending EXCEPT ![r] = <<>>]
    /\ UNCHANGED <<pc, request, run_input, deps, adapter, responses,
                   instructions, events, consumed, agent>>

\* The stream is exhausted and the response ends
Close(r) ==
    /\ pc[r] = "finished"
    /\ consumed[r] = Len(events[r])
    /\ pending[r] = <<>>
    /\ pc' = [pc EXCEPT ![r] = "closed"]
    /\ UNCHANGED <<request, run_input, deps, adapter, responses, instructions,
                   events, consumed, pending, frames, agent>>

Step(r, dom) ==
    \/ Arrive(r, dom)
    \/ run_agent(r)
    \/ run_stream(r)
    \/ ModelText(r, dom)
    \/ CallSyncState(r, dom)
    \/ CallFrontendTool(r, dom)
    \/ CallCounterEvents(r, dom)
    \/ CallWeather(r, dom)
    \/ RunComplete(r)
    \/ encode_stream(r)
    \/ SendFrame(r)
    \/ Close(r)

\* One request, any input
Next == \E r \in Solo : Step(r, Full)
Spec == Init /\ [][Next]_vars

\* Two requests in flight, interleaved at their suspension points
NextConc == \E r \in Req : Step(r, Small)
SpecConc == Init /\ [][NextConc]_vars

---------------------------------------------------------------------------
\* Properties

\* run_agent has returned for r
Handled(r) == pc[r] \notin {"idle", "await_body"}
\* r's body failed run-input decoding
DecodeFailed(r) == build_run_input(request[r].body).raised
\* r's agent run has begun
Started(r) == pc[r] \in {"running", "finished", "closed"}
\* The state payload of r's decoded run input (None when absent)
Payload(r) == IF run_input[r].has_state THEN run_input[r].state ELSE JNull
\* The default DocumentState, field by field
IsDefaultState(st) == st.document = "" /\ st.frontend_tools = <<>>
\* The first n frames are the encodings of the first n events, in order
FramesOf(evs, n) == [i \in 1..n |-> encode_event(evs[i])]

\* C1: a request whose body fails decoding gets exactly one response, 422
\* with content type application/json carrying the serialized validation
\* error; nothing is reconciled, no run starts, no frame is emitted; and a 422
\* is returned only when decoding failed.
C1_DecodeErrorIs422 ==
    \A r \in Req :
        /\ ~Handled(r) => responses[r] = <<>>
        /\ Handled(r) /\ DecodeFailed(r) =>
              /\ Len(responses[r]) = 1
              /\ responses[r][1].status_code = 422
              /\ responses[r][1].media_type = "application/json"
              /\ responses[r][1].content
                   = error_json(build_run_input(request[r].body).exc)
              /\ ~responses[r][1].streaming
              /\ pc[r] = "responded"
              /\ run_input[r] = Unbound
              /\ deps[r] = Unbound
              /\ adapter[r] = Unbound
              /\ instructions[r] = ""
              /\ events[r] = <<>>
              /\ consumed[r] = 0
              /\ pending[r] = <<>>
              /\ frames[r] = <<>>
        /\ Handled(r) =>
              \A i \in DOMAIN responses[r] :
                  responses[r][i].status_code = 422 => DecodeFailed(r)

\* C1's case: a request answered 422
C1_Witness ==
    \E r \in Req :
        /\ pc[r] = "responded"
        /\ request[r].body.kind = "missing"
        /\ Len(responses[r]) = 1
        /\ responses[r][1].status_code = 422

\* The state payload is malformed: a mapping whose fields fail validation, or
\* a value that is neither a mapping, a DocumentState nor null
Malformed(sv) ==
    \/ sv.t = "dict" /\ FieldErrors(sv.v) # {}
    \/ sv.t \notin {"dict", "DocumentState", "null"}

\* C2: a decoded request with a malformed state payload is reconciled to
\* exactly the default DocumentState, never a partly populated one, and every
\* decoded request is answered with one HTTP 200 streaming response.
C2_MalformedStateFallsBack ==
    \A r \in Req :
        Handled(r) /\ ~DecodeFailed(r) =>
            /\ Len(responses[r]) = 1
            /\ responses[r][1].status_code = 200
            /\ responses[r][1].streaming
            /\ Malformed(Payload(r)) => IsDefaultState(deps[r].state)

\* C2's case: a mapping with a valid document and ill-typed frontend_tools
\* was reconciled to the default and the stream is running
C2_Witness ==
    \E r \in Req :
        /\ Started(r)
        /\ Payload(r).t = "dict"
        /\ Has(Payload(r).v, "document")
        /\ Get(Payload(r).v, "document") = JStr("hello")
        /\ "frontend_tools" \in FieldErrors(Payload(r).v)
        /\ IsDefaultState(deps[r].state)
        /\ responses[r][1].status_code = 200

\* C3: when the decoded run input has no state, or a null one, the
\* DocumentState handed to the run has document "" and no frontend tools.
C3_NoStateGivesDefault ==
    \A r \in Req :
        Handled(r) /\ ~DecodeFailed(r)
            /\ (~run_input[r].has_state \/ run_input[r].state.t = "null") =>
            /\ deps[r].state.document = ""
            /\ deps[r].state.frontend_tools = <<>>

\* C3's case: a run under way whose input carried a null state
C3_Witness ==
    \E r \in Req :
        /\ Started(r)
        /\ run_input[r].has_state
        /\ run_input[r].state.t = "null"
        /\ IsDefaultState(Ctx(r).deps.state)

\* C4 as amended: for a state mapping whose document and frontend_tools
\* values are well typed, document and frontend_tools take the mapping's
\* values when present and their defaults when missing; every other key,
\* frontendTools included, is ignored and causes no fallback.
C4_MappingFieldsByName ==
    \A r \in Req :
        Handled(r) /\ ~DecodeFailed(r) /\ Payload(r).t = "dict"
            /\ (Has(Payload(r).v, "document")
                  => Get(Payload(r).v, "document").t = "str")
            /\ (Has(Payload(r).v, "frontend_tools")
                  => ValidFrontendTools(Get(Payload(r).v, "frontend_tools"))) =>
            /\ deps[r].state.document =
                  IF Has(Payload(r).v, "document")
                  THEN Get(Payload(r).v, "document").v ELSE ""
            /\ deps[r].state.frontend_tools =
                  IF Has(Payload(r).v, "frontend_tools")
                  THEN Get(Payload(r).v, "frontend_tools").v ELSE <<>>

\* C4's case: a mapping with document "hello" and two keys that are no
\* fields gave document "hello" and no frontend tools
C4_Witness ==
    \E r \in Req :
        /\ Handled(r) /\ ~DecodeFailed(r) /\ Payload(r).t = "dict"
        /\ Has(Payload(r).v, "extra")
        /\ Has(Payload(r).v, "frontendTools")
        /\ ~Has(Payload(r).v, "frontend_tools")
        /\ deps[r].state.document = "hello"
        /\ deps[r].state.frontend_tools = <<>>

\* C4 as claimed: for a state mapping with well-typed values, the fields named
\* document and frontendTools take the mapping's values when present and
\* their defaults when missing.
C4_AsClaimed ==
    \A r \in Req :
        Handled(r) /\ ~DecodeFailed(r) /\ Payload(r).t = "dict"
            /\ FieldErrors(Payload(r).v) = {}
            /\ ~Has(Payload(r).v, "frontend_tools")
            /\ (Has(Payload(r).v, "frontendTools")
                  => ValidFrontendTools(Get(Payload(r).v, "frontendTools"))) =>
            /\ deps[r].state.document =
                  IF Has(Payload(r).v, "document")
                  THEN Get(Payload(r).v, "document").v ELSE ""
            /\ deps[r].state.frontend_tools =
                  IF Has(Payload(r).v, "frontendTools")
                  THEN Get(Payload(r).v, "frontendTools").v ELSE <<>>

\* C5: the frames sent to the client are the encodings of the events the
\* agent produced, one frame per event, in the order of production; nothing
\* is dropped, duplicated, batched or reordered, and a closed stream has
\* delivered every event.
C5_FramesFollowEvents ==
    \A r \in Req :
        /\ consumed[r] <= Len(events[r])
        /\ Len(pending[r]) <= 1
        /\ Len(frames[r]) + Len(pending[r]) = consumed[r]
        /\ frames[r] \o pending[r] = FramesOf(events[r], consumed[r])
        /\ pc[r] = "closed" => Len(frames[r]) = Len(events[r])

\* C5's case: a closed stream that delivered two different frames
C5_Witness ==
    \E r \in Req :
        /\ pc[r] = "closed"
        /\ Len(frames[r]) = 2
        /\ events[r][1] # events[r][2]
        /\ frames[r][1] # frames[r][2]

\* C6: every decoded request is answered with the server-sent-event content
\* type, and its adapter encodes for that type, whatever the Accept header.
C6_AlwaysEventStream ==
    \A r \in Req :
        Handled(r) /\ ~DecodeFailed(r) =>
            /\ \A i \in DOMAIN responses[r] :
                  responses[r][i].media_type = "text/event-stream"
            /\ adapter[r].accept = "text/event-stream"

\* C6's case: a client asking for application/json answered with an event
\* stream
C6_Witness ==
    \E r \in Req :
        /\ Handled(r) /\ ~DecodeFailed(r)
        /\ request[r].accept = "application/json"
        /\ responses[r][1].media_type = "text/event-stream"
        /\ responses[r][1].streaming

\* What r's reconciled state is when r is handled alone
OwnState(r) == doc_state(build_run_input(request[r].body).value)

\* C7: with two requests in flight and interleaved at their suspension
\* points, each request's reconciled state, response and frames are those its
\* own input and its own run's events determine, and the agent configuration
\* stays as built at startup.
C7_RequestsIsolated ==
    /\ agent = AgentConfig
    /\ \A r \in Req :
          /\ Handled(r) /\ DecodeFailed(r) =>
                /\ Len(responses[r]) = 1
                /\ responses[r][1].status_code = 422
                /\ frames[r] = <<>>
          /\ Handled(r) /\ ~DecodeFailed(r) =>
                /\ deps[r].state = OwnState(r)
                /\ Len(responses[r]) = 1
                /\ responses[r][1].status_code = 200
                /\ frames[r] = FramesOf(events[r], Len(frames[r]))
                /\ Started(r) =>
                      instructions[r]
                        = system_instructions([deps |-> StateDeps(OwnState(r))])
                /\ \A i \in DOMAIN events[r] :
                      events[r][i].tool = "sync_state_with_frontend" =>
                          events[r][i].content
                            = sync_state_with_frontend(
                                  [deps |-> StateDeps(OwnState(r))])

\* C7's case: two runs under way at once on different states, each with a
\* frame delivered
C7_Witness ==
    /\ pc["r1"] = "running" /\ pc["r2"] = "running"
    /\ deps["r1"].state.document = "hello"
    /\ deps["r2"].state.document = ""
    /\ Len(frames["r1"]) = 1 /\ Len(frames["r2"]) = 1

\* The execute_frontend_tool results among r's events
FrontendResults(r) ==
    {i \in DOMAIN events[r] : events[r][i].tool = "execute_frontend_tool"}

\* The acknowledgement embeds the tool name and the arguments
EmbedsCall(ack, tool_name, args) ==
    /\ SubSeq(ack, 1, 15) = "Frontend tool '"
    /\ SubSeq(ack, 16, 15 + Len(tool_name)) = tool_name
    /\ SubSeq(ack, Len(ack) - Len(py_str_dict(args)) + 1, Len(ack))
         = py_str_dict(args)
    /\ Len(ack) = 15 + Len(tool_name)
                     + Len("' execution requested with args: ")
                     + Len(py_str_dict(args))

\* Any two calls with the same (tool_name, args), in any runs, returned the
\* same acknowledgement, and it embeds the name and the arguments
SameCallSameAck ==
    \A r1 \in Req, r2 \in Req :
        \A i \in FrontendResults(r1), j \in FrontendResults(r2) :
            /\ EmbedsCall(events[r1][i].content,
                          events[r1][i].call[1], events[r1][i].call[2])
            /\ events[r1][i].call = events[r2][j].call
                  => events[r1][i].content = events[r2][j].content

\* A step in which execute_frontend_tool returned changes nothing but the
\* run's events
FrontendCallStep ==
    \A r \in Req :
        Len(events'[r]) = Len(events[r]) + 1
            /\ events'[r][Len(events'[r])].tool = "execute_frontend_tool" =>
            /\ deps' = deps
            /\ agent' = agent
            /\ UNCHANGED <<pc, request, run_input, adapter, responses,
                           instructions, consumed, pending, frames>>

\* C8: execute_frontend_tool is a pure function of (tool_name, args): equal
\* calls return equal acknowledgements embedding the name and arguments in
\* any run and on any DocumentState, and a call changes no state.
C8_FrontendToolPure == []SameCallSameAck /\ [][FrontendCallStep]_vars

\* C8's case: two runs on different DocumentStates each made the same call
C8_Witness ==
    /\ Started("r1") /\ Started("r2")
    /\ deps["r1"].state # deps["r2"].state
    /\ \E i \in FrontendResults("r1"), j \in FrontendResults("r2") :
          events["r1"][i].call = events["r2"][j].call

\* The instructions for a state: the base text, extended with the listing of
\* the frontend tools when there are any
ExpectedInstructions(tools) ==
    IF tools = <<>>
    THEN "You are a helpful assistant."
    ELSE "You are a helpful assistant." \o FrontendDirections
         \o json_dumps(tools)

\* The run's instructions follow its reconciled state
InstructionsFollowState(r) ==
    /\ instructions[r] = ExpectedInstructions(deps[r].state.frontend_tools)
    /\ deps[r].state.frontend_tools # <<>> =>
          /\ SubSeq(instructions[r], 1, 28) = "You are a helpful assistant."
          /\ SubSeq(instructions[r], 144, 164) = "execute_frontend_tool"

====
